---- MODULE Spec2Model ----
(***************************************************************************)
(* The wallet session store of web3-wallet-app (src/store/walletStore.js), *)
(* a Zustand store driven by connect(), disconnect(), refreshBalance() and *)
(* the two MetaMask notifications, with the wallet provider as the         *)
(* environment, and beside it the useWallet() hook (src/hooks/useWallet.js)*)
(* that WalletCard mounts, and the SendEth, TxHistory and TokenChecker      *)
(* panels (src/components) that read the store.  JavaScript is             *)
(* single-threaded: every action below is one run-to-completion slice of   *)
(* the code, from a call or a resolved await up to the next await.         *)
(***************************************************************************)
EXTENDS Integers, Sequences, FiniteSets, Bags, TLC

\* ------------------------------------------------------------------ bounds
\* connect() calls in flight at once
MaxConnects == 2
\* refreshBalance() reads in flight at once
MaxReads == 2
\* handler pairs registered on window.ethereum at once
MaxHandlers == 2
\* sendEth() calls in flight at once
MaxSends == 2
MaxFetches == 2

\* ------------------------------------------------------------------ values
\* JavaScript null in a string-valued field
null == "null"
\* JavaScript null in a number-valued field
nullNumber == -1
\* parseInt's NaN
NaN == -2

\* the accounts the wallet can expose
Accounts == {"0xA1", "0xB2"}
\* the arguments of an accountsChanged notification
AccountLists == { <<>>, <<"0xA1">>, <<"0xB2", "0xA1">> }
\* balances the provider can report, in units of 10^-5 ETH (10^13 wei): the
\* fifth decimal is the one toFixed(4) rounds on
RawBalances == {12344, 12345}
\* the same two inputs, drawn wider for the hook: a third account, and
\* balances from zero up to one that rounds into the next unit
WalletAccounts == {"0xA1", "0xB2", "0xC3"}
WalletRawBalances == {0, 4, 5, 12344, 12345, 50000, 99995}
\* chain ids getNetwork() can report
ChainIds == {11155111, 5}
\* the ids of the label table, and one id outside it
TableChainIds == {1, 11155111, 137, 80001, 5}
\* the arguments of a chainChanged notification, one character per element
HexChainIds == { <<"0", "x", "a", "a", "3", "6", "a", "7">>, <<"0", "x", "5">> }
\* the same for every id of TableChainIds
TableHexChainIds ==
  { <<"0", "x", "1">>,
    <<"0", "x", "a", "a", "3", "6", "a", "7">>,
    <<"0", "x", "8", "9">>,
    <<"0", "x", "1", "3", "8", "8", "1">>,
    <<"0", "x", "5">> }
\* what a rejected await can throw; message "" is an error without a message
ProviderErrors ==
  { [code |-> 4001,   message |-> "User rejected the request."],
    [code |-> -32002, message |-> "Request already pending."],
    [code |-> -32603, message |-> ""] }
NoError == [code |-> 0, message |-> ""]

\* ------------------------------------------------------------ pure helpers
NETWORK_NAMES ==
  [id \in {1, 11155111, 137, 80001} |->
     CASE id = 1        -> "Ethereum Mainnet"
       [] id = 11155111 -> "Sepolia Testnet"
       [] id = 137      -> "Polygon"
       [] id = 80001    -> "Mumbai Testnet"]

\* NETWORK_NAMES[chainId] || `Chain ID: ${chainId}`
networkName(chainId) ==
  IF chainId \in DOMAIN NETWORK_NAMES
    THEN NETWORK_NAMES[chainId]
    ELSE "Chain ID: " \o (IF chainId = NaN THEN "NaN" ELSE ToString(chainId))

HexDigits ==
  [c \in {"0","1","2","3","4","5","6","7","8","9","a","b","c","d","e","f"} |->
     CASE c = "0" -> 0  [] c = "1" -> 1  [] c = "2" -> 2  [] c = "3" -> 3
       [] c = "4" -> 4  [] c = "5" -> 5  [] c = "6" -> 6  [] c = "7" -> 7
       [] c = "8" -> 8  [] c = "9" -> 9  [] c = "a" -> 10 [] c = "b" -> 11
       [] c = "c" -> 12 [] c = "d" -> 13 [] c = "e" -> 14 [] c = "f" -> 15]

\* the digits of s from position i on, up to the first character that is none
RECURSIVE hexPrefix(_, _, _)
hexPrefix(s, i, acc) ==
  IF i > Len(s) \/ s[i] \notin DOMAIN HexDigits
    THEN acc
    ELSE hexPrefix(s, i + 1, Append(acc, HexDigits[s[i]]))

RECURSIVE hexValue(_, _)
hexValue(ds, acc) ==
  IF ds = <<>> THEN acc ELSE hexValue(Tail(ds), acc * 16 + Head(ds))

\* a parseInt that does not know the 0x prefix: it stops at the "x"
parseInt16_noPrefix(s) ==
  LET ds == hexPrefix(s, 1, <<>>)
  IN  IF ds = <<>> THEN NaN ELSE hexValue(ds, 0)

\* parseInt(hexChainId, 16): an optional 0x prefix, then the longest run of
\* hexadecimal digits; NaN when there is none
parseInt16(s) ==
  LET from == IF Len(s) >= 2 /\ s[1] = "0" /\ s[2] = "x" THEN 3 ELSE 1
      ds   == hexPrefix(s, from, <<>>)
  IN  IF ds = <<>> THEN NaN ELSE hexValue(ds, 0)

\* parseFloat(ethers.formatEther(rawBalance)).toFixed(4), in units of 10^-4 ETH
toFixed4(raw) == (raw + 5) \div 10

\* the suspended calls are kept as bags: the order they began in decides nothing
Put(calls, c) == calls (+) SetToBag({c})
Take(calls, c) == calls (-) SetToBag({c})

\* ----------------------------------------------------------------- state
VARIABLES
  ethereum,    \* window.ethereum is injected
  address,     \* store.address
  balance,     \* store.balance, in units of 10^-4 ETH
  network,     \* store.network
  chainId,     \* store.chainId
  status,      \* store.status
  error,       \* store.error
  listeners,   \* store._listeners: 0 for null, else the id of the closure pair
  handlers,    \* the closures registered on window.ethereum, per event
  connecting,  \* the connect() calls suspended at an await (a bag)
  reading,     \* the refreshBalance() calls suspended at getBalance (a bag)
  hook,        \* the useState values of useWallet() in WalletCard, and its calls
  panel,       \* the panel a behaviour follows beside the store, "none" for none
  send,        \* the useState values of SendEth, and its suspended sendEth() calls
  history,     \* the useState values of TxHistory, and its suspended fetchHistory() calls
  tokens,      \* the useState values of TokenChecker, and its suspended checkBalance() calls
  last,        \* history: the slice of code that ran last, and its input
  tracking     \* history: whether suspended calls record a later disconnect()

vars == <<ethereum, address, balance, network, chainId, status, error,
          listeners, handlers, connecting, reading, hook, panel, send,
          history, tokens, last, tracking>>

\* the six public fields of the store
session == <<address, balance, network, chainId, status, error>>

\* the store and its suspended calls as one value, for the operators below
Store ==
  [address |-> address, balance |-> balance, network |-> network,
   chainId |-> chainId, status |-> status, error |-> error,
   listeners |-> listeners, handlers |-> handlers,
   connecting |-> connecting, reading |-> reading]

Event(op) ==
  [op |-> op, err |-> NoError, stale |-> FALSE, accounts |-> <<>>, hex |-> <<>>]

\* ------------------------------------------------ the TxHistory panel's code

\* the bodies Etherscan answers with; for status '1' the result is the list of
\* the transactions of the address asked for, TxsOf(address)
HistoryResponses ==
  { [status |-> "1", message |-> "OK",                    result |-> "list"],
    [status |-> "0", message |-> "No transactions found", result |-> ""],
    [status |-> "0", message |-> "NOTOK", result |-> "Invalid API Key"],
    [status |-> "0", message |-> "NOTOK", result |-> "Max rate limit reached"],
    [status |-> "0", message |-> "NOTOK", result |-> "Error!"] }

TxsOf(a) == <<[from |-> a]>>

\* data.result?.includes(part), for the results of HistoryResponses
resultIncludes(result, part) ==
  \/ result = "Invalid API Key" /\ part = "Invalid API Key"
  \/ result = "Max rate limit reached" /\ part = "rate limit"

\* fetchHistory() up to its first await, in a render where the store's address
\* is addr; h.key is whether ETHERSCAN_KEY is set
fetchHistory(h, addr) ==
  IF addr = null THEN h
  ELSE IF ~h.key
    THEN [h EXCEPT !.error =
            "Missing VITE_ETHERSCAN_API_KEY in .env file. See instructions above.",
                   !.fetched = TRUE]
  ELSE [h EXCEPT !.loading = TRUE, !.error = null,
                 !.calls = Put(@, [pc |-> "fetch", address |-> addr])]

\* fetchHistory() resumed after fetch() resolved
fetchHistory_fetched(h, c) ==
  [h EXCEPT !.calls = Put(Take(@, c), [c EXCEPT !.pc = "json"])]

\* fetchHistory() resumed after response.json() resolved, and its finally block
fetchHistory_parsed(h, c, data) ==
  LET done == [h EXCEPT !.loading = FALSE, !.fetched = TRUE,
                        !.calls = Take(@, c)]
  IN  IF data.status = "1" THEN [done EXCEPT !.txs = TxsOf(c.address)]
      ELSE IF data.message = "No transactions found"
        THEN [done EXCEPT !.txs = <<>>]
      ELSE IF resultIncludes(data.result, "Invalid API Key")
        THEN [done EXCEPT !.error = "Invalid Etherscan API key. Check your .env file."]
      ELSE IF resultIncludes(data.result, "rate limit")
        THEN [done EXCEPT !.error = "Rate limited. Wait a moment and refresh."]
      ELSE [done EXCEPT !.error = "Could not fetch transactions. Try refreshing."]

\* the catch block of fetchHistory(), and its finally block
fetchHistory_catch(h, c) ==
  [h EXCEPT !.error = "Network error. Check your connection and try again.",
            !.loading = FALSE, !.fetched = TRUE, !.calls = Take(@, c)]

\* the effect on [address], run with the new address
useEffect(h, addr) ==
  IF addr # null THEN fetchHistory(h, addr)
  ELSE [h EXCEPT !.txs = <<>>, !.fetched = FALSE, !.error = null]

\* the next state is the store w, after the slice l; a mounted TxHistory runs
\* its effect when the store's address has changed
Apply(w, l) ==
  /\ address' = w.address
  /\ balance' = w.balance
  /\ network' = w.network
  /\ chainId' = w.chainId
  /\ status' = w.status
  /\ error' = w.error
  /\ listeners' = w.listeners
  /\ handlers' = w.handlers
  /\ connecting' = w.connecting
  /\ reading' = w.reading
  /\ last' = l
  /\ history' = IF panel = "TxHistory" /\ w.address # address
                  THEN useEffect(history, w.address) ELSE history
  /\ BagCardinality(history'.calls) <= MaxFetches
  /\ UNCHANGED <<ethereum, hook, panel, send, tokens, tracking>>

\* the result state of TokenChecker when it is null
NoResult ==
  [contractAddress |-> "", checkedAddress |-> "", rawBalance |-> nullNumber,
   hasBalance |-> FALSE]

InitStore ==
  /\ ethereum = FALSE
  /\ address = null
  /\ balance = nullNumber
  /\ network = null
  /\ chainId = nullNumber
  /\ status = "idle"
  /\ error = null
  /\ listeners = 0
  /\ handlers = [accountsChanged |-> {}, chainChanged |-> {}]
  /\ connecting = EmptyBag
  /\ reading = EmptyBag
  /\ hook = [address |-> null, balance |-> nullNumber, network |-> null,
             status |-> "idle", error |-> null, calls |-> EmptyBag]
  /\ send = [toAddress |-> "", amount |-> NaN, stage |-> "idle",
             txHash |-> null, errorMsg |-> null, calls |-> EmptyBag]
  /\ tokens = [contractAddress |-> "", walletAddress |-> "", result |-> NoResult,
               loading |-> FALSE, error |-> null, calls |-> EmptyBag]
  /\ last = Event("init")

\* the state of TxHistory when mounted, ETHERSCAN_KEY being set or not
InitHistory(key) ==
  history = [key |-> key, txs |-> <<>>, loading |-> FALSE, error |-> null,
             fetched |-> FALSE, calls |-> EmptyBag]

Init == InitStore /\ InitHistory(TRUE) /\ tracking = FALSE /\ panel = "none"

\* the same program, with the history of disconnect() kept in the suspended calls
InitTracked ==
  InitStore /\ InitHistory(TRUE) /\ tracking = TRUE /\ panel = "none"

\* ------------------------------------------------------ the store's code
\* a fresh closure pair: every startListeners() call creates new functions
NewClosure(w) ==
  CHOOSE id \in 1..(MaxHandlers + 1) :
    /\ id \notin w.handlers.accountsChanged \cup w.handlers.chainChanged
    /\ \A j \in 1..(id - 1) :
         j \in w.handlers.accountsChanged \cup w.handlers.chainChanged

startListeners(w) ==
  LET id == NewClosure(w)
  IN  [w EXCEPT !.handlers = [accountsChanged |-> @.accountsChanged \cup {id},
                              chainChanged    |-> @.chainChanged \cup {id}],
                !.listeners = id]

\* stopListeners() that forgets the chainChanged handler
stopListeners_accountsOnly(w) ==
  IF w.listeners = 0
    THEN w
    ELSE [w EXCEPT !.handlers = [accountsChanged |-> @.accountsChanged \ {w.listeners},
                                 chainChanged    |-> @.chainChanged],
                   !.listeners = 0]

\* stopListeners() that removes the oldest registered pair, whatever
\* _listeners holds
stopListeners_removesOldest(w) ==
  LET ids    == w.handlers.accountsChanged \cup w.handlers.chainChanged
      oldest == {i \in ids : \A j \in ids : i <= j}
  IN  [w EXCEPT !.handlers = [accountsChanged |-> @.accountsChanged \ oldest,
                              chainChanged    |-> @.chainChanged \ oldest],
                !.listeners = 0]

stopListeners(w) ==
  IF w.listeners = 0
    THEN w
    ELSE [w EXCEPT !.handlers = [accountsChanged |-> @.accountsChanged \ {w.listeners},
                                 chainChanged    |-> @.chainChanged \ {w.listeners}],
                   !.listeners = 0]

\* history: every suspended call now predates a disconnect()
MarkStale(calls) ==
  IF ~tracking THEN calls ELSE
  [c \in {[d EXCEPT !.stale = TRUE] : d \in BagToSet(calls)} |->
     CopiesIn(c, calls) + CopiesIn([c EXCEPT !.stale = FALSE], calls)]

\* a disconnect() that asks the provider for a last balance before it resets
disconnect_readsBalanceFirst(w) ==
  [stopListeners(w) EXCEPT
     !.address = null, !.balance = nullNumber, !.network = null,
     !.chainId = nullNumber, !.status = "idle", !.error = null,
     !.connecting = MarkStale(@),
     !.reading = IF w.address = null \/ ~ethereum
                   THEN MarkStale(@)
                   ELSE Put(MarkStale(@), [address |-> w.address, stale |-> TRUE])]

disconnect(w) ==
  [stopListeners(w) EXCEPT
     !.address = null, !.balance = nullNumber, !.network = null,
     !.chainId = nullNumber, !.status = "idle", !.error = null,
     !.connecting = MarkStale(@), !.reading = MarkStale(@)]

\* refreshBalance() without the check of address
refreshBalance_noAddressCheck(w) ==
  IF ~ethereum
    THEN w
    ELSE [w EXCEPT !.reading = Put(@, [address |-> w.address, stale |-> FALSE])]

\* refreshBalance() up to its await
refreshBalance(w) ==
  IF w.address = null
    THEN w
    ELSE IF ~ethereum
      THEN w   \* new BrowserProvider(undefined) throws into the empty catch
      ELSE [w EXCEPT !.reading = Put(@, [address |-> w.address, stale |-> FALSE])]

\* refreshBalance() after provider.getBalance(address) resolved
getBalanceRead(w, r, raw) ==
  [w EXCEPT !.balance = toFixed4(raw), !.reading = Take(@, r)]

\* a catch block that clears the balance it could not read
getBalanceFailed_clearsBalance(w, r) ==
  [w EXCEPT !.balance = nullNumber, !.reading = Take(@, r)]

\* refreshBalance() after provider.getBalance(address) rejected
getBalanceFailed(w, r) == [w EXCEPT !.reading = Take(@, r)]

MetaMaskNotFound == "MetaMask not found. Install it at metamask.io"
ConnectionRejected == "Connection rejected. Please try again."
SomethingWentWrong == "Something went wrong."

\* connect() that leaves the previous error in place when it starts
connect_keepsError(w) ==
  IF ~ethereum
    THEN [w EXCEPT !.error = MetaMaskNotFound, !.status = "error"]
    ELSE [w EXCEPT !.status = "connecting",
                   !.connecting = Put(@, [pc |-> "eth_requestAccounts",
                                          address |-> null,
                                          balance |-> nullNumber,
                                          stale |-> FALSE])]

\* connect() up to its first await
connect(w) ==
  IF ~ethereum
    THEN [w EXCEPT !.error = MetaMaskNotFound, !.status = "error"]
    ELSE [w EXCEPT !.status = "connecting", !.error = null,
                   !.connecting = Put(@, [pc |-> "eth_requestAccounts",
                                          address |-> null,
                                          balance |-> nullNumber,
                                          stale |-> FALSE])]

\* an eth_requestAccounts whose promise never settles: the call is gone
requestAccountsResolved_neverResumes(w, c) ==
  [w EXCEPT !.connecting = Take(@, c)]

\* connect() resumed after provider.send('eth_requestAccounts') resolved
requestAccountsResolved(w, c) ==
  [w EXCEPT !.connecting = Put(Take(@, c), [c EXCEPT !.pc = "getSigner"])]

\* connect() resumed after provider.getSigner() resolved with account a's signer
getSignerResolved(w, c, a) ==
  [w EXCEPT !.connecting =
     Put(Take(@, c), [c EXCEPT !.pc = "getAddress", !.address = a])]

\* connect() resumed after signer.getAddress() resolved
getAddressResolved(w, c) ==
  [w EXCEPT !.connecting = Put(Take(@, c), [c EXCEPT !.pc = "getBalance"])]

\* connect() resumed after provider.getBalance(address) resolved
getBalanceResolved(w, c, raw) ==
  [w EXCEPT !.connecting =
     Put(Take(@, c), [c EXCEPT !.pc = "getNetwork", !.balance = toFixed4(raw)])]

\* a success path that registers the listeners and forgets the status
getNetworkResolved_keepsStatus(w, c, id) ==
  startListeners(
    [w EXCEPT !.address = c.address, !.balance = c.balance,
              !.network = networkName(id), !.chainId = id,
              !.connecting = Take(@, c)])

\* connect() resumed after provider.getNetwork() resolved: steps 8 to 10
getNetworkResolved(w, c, id) ==
  startListeners(
    [w EXCEPT !.address = c.address, !.balance = c.balance,
              !.network = networkName(id), !.chainId = id,
              !.status = "connected",
              !.connecting = Take(@, c)])

\* a catch block that treats code 4001 like every other failure
connectCatch_noRejectionCase(w, c, err) ==
  [w EXCEPT !.status = "error",
            !.error = IF err.message # "" THEN err.message ELSE SomethingWentWrong,
            !.connecting = Take(@, c)]

\* a catch block that never passes the failure's message on
connectCatch_dropsMessage(w, c, err) ==
  [w EXCEPT !.status = "error",
            !.error = IF err.code = 4001 THEN ConnectionRejected
                                         ELSE SomethingWentWrong,
            !.connecting = Take(@, c)]

\* the catch block of connect()
connectCatch(w, c, err) ==
  LET message == IF err.code = 4001
                   THEN ConnectionRejected
                   ELSE IF err.message # "" THEN err.message
                                            ELSE SomethingWentWrong
  IN  [w EXCEPT !.status = "error", !.error = message,
                !.connecting = Take(@, c)]

\* a handler that only forgets the address when the list is empty
onAccountsChanged_clearsAddressOnly(w, accounts) ==
  IF Len(accounts) = 0
    THEN [w EXCEPT !.address = null]
    ELSE refreshBalance([w EXCEPT !.address = accounts[1]])

\* a handler that adopts the last account of the list
onAccountsChanged_lastAccount(w, accounts) ==
  IF Len(accounts) = 0
    THEN disconnect(w)
    ELSE refreshBalance([w EXCEPT !.address = accounts[Len(accounts)]])

onAccountsChanged(w, accounts) ==
  IF Len(accounts) = 0
    THEN disconnect(w)
    ELSE refreshBalance([w EXCEPT !.address = accounts[1]])

\* a handler that stores the new chainId and keeps the old label
onChainChanged_keepsNetwork(w, hexChainId) ==
  refreshBalance([w EXCEPT !.chainId = parseInt16(hexChainId)])

onChainChanged(w, hexChainId) ==
  LET id == parseInt16(hexChainId)
  IN  refreshBalance([w EXCEPT !.chainId = id, !.network = networkName(id)])

\* window.ethereum emits to the n closures registered when the emit began
RECURSIVE emitAccountsChanged(_, _, _)
emitAccountsChanged(w, n, accounts) ==
  IF n = 0 THEN w
           ELSE emitAccountsChanged(onAccountsChanged(w, accounts), n - 1, accounts)

RECURSIVE emitChainChanged(_, _, _)
emitChainChanged(w, n, hexChainId) ==
  IF n = 0 THEN w
           ELSE emitChainChanged(onChainChanged(w, hexChainId), n - 1, hexChainId)

\* --------------------------------------------------------------- actions
\* the wallet extension injects window.ethereum
InjectProvider ==
  /\ ~ethereum
  /\ ethereum' = TRUE
  /\ last' = Event("inject")
  /\ UNCHANGED <<address, balance, network, chainId, status, error,
                 listeners, handlers, connecting, reading, hook, panel, send,
                 history, tokens, tracking>>

Connect ==
  /\ ~ethereum \/ BagCardinality(connecting) < MaxConnects
  /\ Apply(connect(Store),
           Event(IF ethereum THEN "connect" ELSE "connectNoProvider"))

At(pc) == {c \in BagToSet(connecting) : c.pc = pc}

RequestAccountsReply ==
  \E c \in At("eth_requestAccounts") :
    Apply(requestAccountsResolved(Store, c), Event("requestAccountsReply"))

GetSignerReply ==
  \E c \in At("getSigner"), a \in Accounts :
    Apply(getSignerResolved(Store, c, a), Event("getSignerReply"))

GetAddressReply ==
  \E c \in At("getAddress") :
    Apply(getAddressResolved(Store, c), Event("getAddressReply"))

GetBalanceReply ==
  \E c \in At("getBalance"), raw \in RawBalances :
    Apply(getBalanceResolved(Store, c, raw), Event("getBalanceReply"))

GetNetworkReply ==
  \E c \in At("getNetwork"), id \in ChainIds :
    /\ Cardinality(handlers.accountsChanged) < MaxHandlers
    /\ Apply(getNetworkResolved(Store, c, id),
             [Event("connected") EXCEPT !.stale = c.stale])

ConnectThrow ==
  \E c \in BagToSet(connecting), err \in ProviderErrors :
    Apply(connectCatch(Store, c, err),
          [Event("connectFailed") EXCEPT !.err = err, !.stale = c.stale])

Disconnect ==
  \E w \in {disconnect(Store)} : Apply(w, Event("disconnect"))

RefreshBalance ==
  LET w == refreshBalance(Store)
  IN  /\ BagCardinality(w.reading) <= MaxReads
      /\ Apply(w, Event("refreshBalance"))

BalanceReply ==
  \E r \in BagToSet(reading), raw \in RawBalances :
    Apply(getBalanceRead(Store, r, raw),
          [Event("balanceRead") EXCEPT !.stale = r.stale])

BalanceThrow ==
  \E r \in BagToSet(reading) :
    Apply(getBalanceFailed(Store, r),
          [Event("balanceFailed") EXCEPT !.stale = r.stale])

AccountsChanged ==
  \E accounts \in AccountLists :
    LET n == Cardinality(handlers.accountsChanged)
        w == emitAccountsChanged(Store, n, accounts)
    IN  /\ n > 0
        /\ BagCardinality(w.reading) <= MaxReads
        /\ Apply(w, [Event("accountsChanged") EXCEPT !.accounts = accounts])

ChainChanged ==
  \E hexChainId \in HexChainIds :
    LET n == Cardinality(handlers.chainChanged)
        w == emitChainChanged(Store, n, hexChainId)
    IN  /\ n > 0
        /\ BagCardinality(w.reading) <= MaxReads
        /\ Apply(w, [Event("chainChanged") EXCEPT !.hex = hexChainId])

Next ==
  \/ InjectProvider
  \/ Connect
  \/ RequestAccountsReply
  \/ GetSignerReply
  \/ GetAddressReply
  \/ GetBalanceReply
  \/ GetNetworkReply
  \/ ConnectThrow
  \/ Disconnect
  \/ RefreshBalance
  \/ BalanceReply
  \/ BalanceThrow
  \/ AccountsChanged
  \/ ChainChanged

Spec == Init /\ [][Next]_vars

\* the same program and environment, with the history flags switched on
SpecTracked == InitTracked /\ [][Next]_vars

\* the store driven by the provider alone: nobody calls refreshBalance(), so
\* every suspended balance read was started by a notification handler
NextNotify ==
  \/ InjectProvider
  \/ Connect
  \/ RequestAccountsReply
  \/ GetSignerReply
  \/ GetAddressReply
  \/ GetBalanceReply
  \/ GetNetworkReply
  \/ ConnectThrow
  \/ Disconnect
  \/ BalanceReply
  \/ BalanceThrow
  \/ AccountsChanged
  \/ ChainChanged

SpecNotify == Init /\ [][NextNotify]_vars

\* connect() and disconnect() alone.  status, error and the suspended connect()
\* calls are written by nothing else (an empty accountsChanged is disconnect()),
\* so these behaviours are Spec's, seen through those variables
NextConnect ==
  \/ InjectProvider
  \/ Connect
  \/ RequestAccountsReply
  \/ GetSignerReply
  \/ GetAddressReply
  \/ GetBalanceReply
  \/ GetNetworkReply
  \/ ConnectThrow
  \/ Disconnect

SpecConnect == Init /\ [][NextConnect]_vars

\* the provider settles every promise of connect(), one way or the other
ProviderAnswers ==
  \/ RequestAccountsReply
  \/ GetSignerReply
  \/ GetAddressReply
  \/ GetBalanceReply
  \/ GetNetworkReply
  \/ ConnectThrow

\* connect() and disconnect() with a provider that answers in the end
SpecAnswered == SpecConnect /\ WF_vars(ProviderAnswers)

\* the scenario of a page that loads before the wallet extension: connect()
\* fails for want of a provider, the extension is injected, and connect() is
\* called again, one call at a time
InjectAfterFailure ==
  /\ status = "error"
  /\ error = MetaMaskNotFound
  /\ InjectProvider

ConnectAlone ==
  /\ connecting = EmptyBag
  /\ Connect

NextRecover ==
  \/ InjectAfterFailure
  \/ ConnectAlone
  \/ RequestAccountsReply
  \/ GetSignerReply
  \/ GetAddressReply
  \/ GetBalanceReply
  \/ GetNetworkReply
  \/ ConnectThrow
  \/ Disconnect
  \/ RefreshBalance
  \/ BalanceReply
  \/ BalanceThrow
  \/ AccountsChanged
  \/ ChainChanged

SpecRecover == Init /\ [][NextRecover]_vars

\* connect(), one call at a time, and disconnect()
NextReenter ==
  \/ InjectProvider
  \/ ConnectAlone
  \/ RequestAccountsReply
  \/ GetSignerReply
  \/ GetAddressReply
  \/ GetBalanceReply
  \/ GetNetworkReply
  \/ ConnectThrow
  \/ Disconnect

\* the same with every step taken again and again as long as it stays
\* possible: a user who keeps calling, and a provider that keeps answering
\* each request with success.  The conditions constrain no finite behaviour,
\* so every state reachable by NextReenter begins a behaviour of SpecReenter,
\* and what SpecReenter reaches again and again can be reached from every
\* such state.
SpecReenter ==
  /\ Init /\ [][NextReenter]_vars
  /\ WF_vars(InjectProvider)
  /\ SF_vars(ConnectAlone)
  /\ SF_vars(RequestAccountsReply)
  /\ SF_vars(GetSignerReply)
  /\ SF_vars(GetAddressReply)
  /\ SF_vars(GetBalanceReply)
  /\ SF_vars(GetNetworkReply)
  /\ WF_vars(Disconnect)

\* connect() calls one at a time, with everything else free, and with the
\* provider reporting every chain id of the label table
GetNetworkReplyTable ==
  \E c \in At("getNetwork"), id \in TableChainIds :
    /\ Cardinality(handlers.accountsChanged) < MaxHandlers
    /\ Apply(getNetworkResolved(Store, c, id),
             [Event("connected") EXCEPT !.stale = c.stale])

ChainChangedTable ==
  \E hexChainId \in TableHexChainIds :
    LET n == Cardinality(handlers.chainChanged)
        w == emitChainChanged(Store, n, hexChainId)
    IN  /\ n > 0
        /\ BagCardinality(w.reading) <= MaxReads
        /\ Apply(w, [Event("chainChanged") EXCEPT !.hex = hexChainId])

NextSerial ==
  \/ InjectProvider
  \/ ConnectAlone
  \/ RequestAccountsReply
  \/ GetSignerReply
  \/ GetAddressReply
  \/ GetBalanceReply
  \/ GetNetworkReplyTable
  \/ ConnectThrow
  \/ Disconnect
  \/ RefreshBalance
  \/ BalanceReply
  \/ BalanceThrow
  \/ AccountsChanged
  \/ ChainChangedTable

SpecSerial == Init /\ [][NextSerial]_vars

\* ------------------------------------------- the useWallet() hook's code
NETWORKS ==
  [id \in {1, 11155111, 137, 80001} |->
     CASE id = 1        -> "Ethereum Mainnet"
       [] id = 11155111 -> "Sepolia Testnet"
       [] id = 137      -> "Polygon"
       [] id = 80001    -> "Mumbai Testnet"]

HookMetaMaskNotFound == "MetaMask not found. Please install it at metamask.io"
HookSomethingWentWrong == "Something went wrong"

\* useWallet().connect up to its first await
useWallet_connect(h) ==
  IF ~ethereum
    THEN [h EXCEPT !.error = HookMetaMaskNotFound, !.status = "error"]
    ELSE [h EXCEPT !.status = "connecting", !.error = null,
                   !.calls = Put(@, [pc |-> "eth_requestAccounts",
                                     address |-> null,
                                     balance |-> nullNumber])]

\* the call c resumed after an await other than the last resolved
useWallet_resumed(h, c, d) == [h EXCEPT !.calls = Put(Take(@, c), d)]

\* the call c resumed after provider.getNetwork() resolved: step 8
useWallet_connected(h, c, id) ==
  [h EXCEPT !.address = c.address, !.balance = c.balance,
            !.network = IF id \in DOMAIN NETWORKS
                          THEN NETWORKS[id]
                          ELSE "Chain ID: " \o ToString(id),
            !.status = "connected",
            !.calls = Take(@, c)]

\* the catch block of useWallet().connect
useWallet_catch(h, c, err) ==
  LET message == IF err.code = 4001
                   THEN ConnectionRejected
                   ELSE IF err.message # "" THEN err.message
                                            ELSE HookSomethingWentWrong
  IN  [h EXCEPT !.error = message, !.status = "error", !.calls = Take(@, c)]

\* a disconnect that forgets to clear the address
useWallet_disconnect_keepsAddress(h) ==
  [h EXCEPT !.balance = nullNumber, !.network = null, !.status = "idle",
            !.error = null]

useWallet_disconnect(h) ==
  [h EXCEPT !.address = null, !.balance = nullNumber, !.network = null,
            !.status = "idle", !.error = null]

\* the next state is the hook state h after the slice l; the store is not touched
ApplyHook(h, l) ==
  /\ hook' = h
  /\ last' = l
  /\ UNCHANGED <<ethereum, address, balance, network, chainId, status, error,
                 listeners, handlers, connecting, reading, panel, send,
                 history, tokens, tracking>>

HookAt(pc) == {c \in BagToSet(hook.calls) : c.pc = pc}

\* the connect button: rendered while not connected, disabled while connecting
WalletCardConnect ==
  /\ hook.status \notin {"connected", "connecting"}
  /\ ApplyHook(useWallet_connect(hook),
               Event(IF ethereum THEN "hookConnect" ELSE "hookConnectNoProvider"))

HookRequestAccountsReply ==
  \E c \in HookAt("eth_requestAccounts") :
    ApplyHook(useWallet_resumed(hook, c, [c EXCEPT !.pc = "getSigner"]),
              Event("hookRequestAccountsReply"))

HookGetSignerReply ==
  \E c \in HookAt("getSigner"), a \in WalletAccounts :
    ApplyHook(useWallet_resumed(hook, c, [c EXCEPT !.pc = "getAddress",
                                                   !.address = a]),
              Event("hookGetSignerReply"))

HookGetAddressReply ==
  \E c \in HookAt("getAddress") :
    ApplyHook(useWallet_resumed(hook, c, [c EXCEPT !.pc = "getBalance"]),
              Event("hookGetAddressReply"))

HookGetBalanceReply ==
  \E c \in HookAt("getBalance"), raw \in WalletRawBalances :
    ApplyHook(useWallet_resumed(hook, c, [c EXCEPT !.pc = "getNetwork",
                                                   !.balance = toFixed4(raw)]),
              Event("hookGetBalanceReply"))

HookGetNetworkReply ==
  \E c \in HookAt("getNetwork"), id \in TableChainIds :
    ApplyHook(useWallet_connected(hook, c, id), Event("hookConnected"))

HookConnectThrow ==
  \E c \in BagToSet(hook.calls), err \in ProviderErrors :
    ApplyHook(useWallet_catch(hook, c, err),
              [Event("hookConnectFailed") EXCEPT !.err = err])

\* the disconnect button: rendered while connected
WalletCardDisconnect ==
  /\ hook.status = "connected"
  /\ ApplyHook(useWallet_disconnect(hook), Event("hookDisconnect"))

\* the application as App.jsx mounts it: WalletCard drives useWallet(); SendEth,
\* TxHistory and TokenChecker read the store, and SendEth's one call into it
\* (refreshBalance() after a send) is behind a button that is disabled until
\* the store is connected.  No component calls the store's connect().
NextApp ==
  \/ InjectProvider
  \/ WalletCardConnect
  \/ HookRequestAccountsReply
  \/ HookGetSignerReply
  \/ HookGetAddressReply
  \/ HookGetBalanceReply
  \/ HookGetNetworkReply
  \/ HookConnectThrow
  \/ WalletCardDisconnect

SpecApp == Init /\ [][NextApp]_vars

\* the contract addresses of the preset tokens (LINK, WETH, USDC)
PRESET_TOKENS == {"0x7798", "0xfFf9", "0x1c7D"}

\* ------------------------------------------------- the SendEth panel's code
\* what ethers.isAddress accepts, among the texts the model types
ValidAddresses == WalletAccounts \cup {"0xD4"} \cup PRESET_TOKENS
isAddress(a) == a \in ValidAddresses

\* the texts typed into the recipient field
ToAddresses == {"", "0xZZ", "0xD4"}
\* the texts typed into the amount field, by their parseFloat value in units
\* of 10^-4 ETH; NaN is the empty text
Amounts == {NaN, 0, 100, 5000}
\* the 0.001 ETH kept back for gas, in units of 10^-4 ETH
GasReserve == 10
\* the hashes a receipt can carry
TxHashes == {"0xT1", "0xT2"}
\* what a rejected await of sendEth() can throw
SendErrors ==
  { [code |-> 4001,   message |-> "User rejected the request."],
    [code |-> -32000, message |-> "insufficient funds for gas * price + value"],
    [code |-> -32603, message |-> ""] }

\* msg.includes(part), for the messages of SendErrors and TokenErrors
includes(msg, part) ==
  \/ /\ msg = "insufficient funds for gas * price + value"
     /\ part \in {"insufficient funds", "gas"}
  \/ /\ msg = "could not decode result data (code=BAD_DATA)"
     /\ part \in {"could not decode", "BAD_DATA"}
  \/ /\ msg = "missing revert data (code=CALL_EXCEPTION)"
     /\ part = "CALL_EXCEPTION"

InvalidAddressMsg ==
  "Invalid address. Must start with 0x and be 42 characters long."
InvalidAmountMsg == "Enter a valid amount greater than 0."
MaxSendableMsg(bal) ==
  "Max sendable is " \o ToString(bal - GasReserve)
    \o " ETH. The rest is reserved for gas."

\* a validate() without the check against the balance
validate_noReserveCheck(s, bal) ==
  IF ~isAddress(s.toAddress) THEN InvalidAddressMsg
  ELSE IF s.amount = NaN \/ s.amount <= 0 THEN InvalidAmountMsg
  ELSE null

\* validate(), with the balance the panel read from the store; a comparison
\* with the NaN of an absent balance is false
validate(s, bal) ==
  IF ~isAddress(s.toAddress) THEN InvalidAddressMsg
  ELSE IF s.amount = NaN \/ s.amount <= 0 THEN InvalidAmountMsg
  ELSE IF bal # nullNumber /\ s.amount > bal - GasReserve THEN MaxSendableMsg(bal)
  ELSE null

friendlyError(err) ==
  IF err.code = 4001 THEN null
  ELSE IF includes(err.message, "INSUFFICIENT_FUNDS")
          \/ includes(err.message, "insufficient funds")
    THEN "Insufficient funds. Remember gas fees are deducted on top of the amount you send."
  ELSE IF includes(err.message, "invalid address")
          \/ includes(err.message, "bad address")
    THEN "Invalid recipient address. Double-check it starts with 0x and is 42 characters."
  ELSE IF includes(err.message, "network")
          \/ includes(err.message, "could not detect")
    THEN "Network error. Check your MetaMask is on Sepolia and try again."
  ELSE IF includes(err.message, "nonce")
    THEN "Transaction conflict. Try again in a few seconds."
  ELSE IF includes(err.message, "gas")
    THEN "Gas estimation failed. The transaction may not be valid."
  ELSE "Transaction failed. Please try again."

\* sendEth() up to its first await, provider.getSigner()
sendEth(s, bal) ==
  LET validationError == validate(s, bal)
  IN  IF validationError # null
        THEN [s EXCEPT !.errorMsg = validationError]
        ELSE [s EXCEPT !.errorMsg = null,
                       !.calls = Put(@, [pc |-> "getSigner"])]

\* sendEth() resumed after getSigner() resolved
sendEth_signed(s, c) ==
  [s EXCEPT !.stage = "confirming",
            !.calls = Put(Take(@, c), [pc |-> "sendTransaction"])]

\* sendEth() resumed after signer.sendTransaction() resolved
sendEth_broadcast(s, c) ==
  [s EXCEPT !.stage = "mining", !.calls = Put(Take(@, c), [pc |-> "wait"])]

\* sendEth() resumed after tx.wait() resolved; the store's refreshBalance()
\* that follows is in the action
sendEth_mined(s, c, hash) ==
  [s EXCEPT !.txHash = hash, !.stage = "success", !.calls = Take(@, c)]

\* a catch block that shows a rejection like every other failure
sendEth_catch_noRejectionCase(s, c, err) ==
  [s EXCEPT !.errorMsg = "Transaction failed. Please try again.",
            !.stage = "error", !.calls = Take(@, c)]

\* the catch block of sendEth()
sendEth_catch(s, c, err) ==
  IF err.code = 4001
    THEN [s EXCEPT !.stage = "idle", !.calls = Take(@, c)]
    ELSE [s EXCEPT !.errorMsg = friendlyError(err), !.stage = "error",
                   !.calls = Take(@, c)]

\* a success path that writes the store's balance itself
sendEth_refresh_writesBalance(w) == [w EXCEPT !.balance = nullNumber]

\* the store call that ends the success path of sendEth()
sendEth_refresh(w) == refreshBalance(w)

reset(s) ==
  [s EXCEPT !.toAddress = "", !.amount = NaN, !.stage = "idle",
            !.txHash = null, !.errorMsg = null]

isBusy == send.stage \in {"confirming", "mining"}

\* the next state is the panel state s beside the store w, after the slice l
ApplySend(s, w, l) ==
  /\ send' = s
  /\ address' = w.address
  /\ balance' = w.balance
  /\ network' = w.network
  /\ chainId' = w.chainId
  /\ status' = w.status
  /\ error' = w.error
  /\ listeners' = w.listeners
  /\ handlers' = w.handlers
  /\ connecting' = w.connecting
  /\ reading' = w.reading
  /\ last' = l
  /\ UNCHANGED <<ethereum, hook, panel, history, tokens, tracking>>

\* the form is rendered in every stage but success, its inputs enabled
\* while not busy
EditToAddress ==
  \E a \in ToAddresses :
    /\ panel = "SendEth"
    /\ send.stage # "success" /\ ~isBusy
    /\ ApplySend([send EXCEPT !.toAddress = a, !.errorMsg = null], Store,
                 Event("sendEdit"))

EditAmount ==
  \E n \in Amounts :
    /\ panel = "SendEth"
    /\ send.stage # "success" /\ ~isBusy
    /\ ApplySend([send EXCEPT !.amount = n, !.errorMsg = null], Store,
                 Event("sendEdit"))

\* the send button: disabled={isBusy || !isConnected || !toAddress || !amount}
SendEthClick ==
  /\ panel = "SendEth"
  /\ send.stage # "success" /\ ~isBusy
  /\ status = "connected"
  /\ send.toAddress # "" /\ send.amount # NaN
  /\ BagCardinality(send.calls) < MaxSends
  /\ ApplySend(sendEth(send, balance), Store,
               Event(IF validate(send, balance) # null THEN "sendInvalid"
                                                       ELSE "sendEth"))

SendAt(pc) == {c \in BagToSet(send.calls) : c.pc = pc}

SendSignerReply ==
  \E c \in SendAt("getSigner") :
    ApplySend(sendEth_signed(send, c), Store, Event("sendSigned"))

SendTransactionReply ==
  \E c \in SendAt("sendTransaction") :
    ApplySend(sendEth_broadcast(send, c), Store, Event("sendBroadcast"))

SendWaitReply ==
  \E c \in SendAt("wait"), hash \in TxHashes :
    LET w == sendEth_refresh(Store)
    IN  /\ BagCardinality(w.reading) <= MaxReads
        /\ ApplySend(sendEth_mined(send, c, hash), w, Event("sendMined"))

SendThrow ==
  \E c \in BagToSet(send.calls), err \in SendErrors :
    ApplySend(sendEth_catch(send, c, err), Store,
              [Event("sendFailed") EXCEPT !.err = err])

SendReset ==
  /\ panel = "SendEth"
  /\ send.stage = "success"
  /\ ApplySend(reset(send), Store, Event("sendReset"))

\* SendEth beside a store that is connected once through its API, to a wallet
\* with one account on Sepolia, and stays connected; the MAX button is not used
InitSend ==
  InitStore /\ InitHistory(TRUE) /\ tracking = FALSE /\ panel = "SendEth"

ConnectOnce ==
  /\ ethereum
  /\ status = "idle"
  /\ Connect

OneAccountReply ==
  /\ GetSignerReply
  /\ \A c \in BagToSet(connecting') : c.address = "0xA1"

SepoliaReply ==
  /\ GetNetworkReply
  /\ chainId' = 11155111

NextSend ==
  \/ InjectProvider
  \/ ConnectOnce
  \/ RequestAccountsReply
  \/ OneAccountReply
  \/ GetAddressReply
  \/ GetBalanceReply
  \/ SepoliaReply
  \/ BalanceReply
  \/ EditToAddress
  \/ EditAmount
  \/ SendEthClick
  \/ SendSignerReply
  \/ SendTransactionReply
  \/ SendWaitReply
  \/ SendThrow
  \/ SendReset

SpecSend == InitSend /\ [][NextSend]_vars

\* ------------------------------------------------ the TxHistory panel's steps
\* the next state is the panel state h beside the unchanged store
ApplyHistory(h, l) ==
  /\ history' = h
  /\ last' = l
  /\ UNCHANGED <<ethereum, address, balance, network, chainId, status, error,
                 listeners, handlers, connecting, reading, hook, panel, send,
                 tokens, tracking>>

\* the refresh button: shown when connected, disabled={loading}
HistoryRefresh ==
  /\ panel = "TxHistory"
  /\ status = "connected"
  /\ ~history.loading
  /\ BagCardinality(history.calls) < MaxFetches
  /\ ApplyHistory(fetchHistory(history, address), Event("historyRefresh"))

HistoryAt(pc) == {c \in BagToSet(history.calls) : c.pc = pc}

HistoryFetchReply ==
  \E c \in HistoryAt("fetch") :
    ApplyHistory(fetchHistory_fetched(history, c), Event("historyFetched"))

HistoryJsonReply ==
  \E c \in HistoryAt("json"), data \in HistoryResponses :
    ApplyHistory(fetchHistory_parsed(history, c, data), Event("historyParsed"))

HistoryThrow ==
  \E c \in BagToSet(history.calls) :
    ApplyHistory(fetchHistory_catch(history, c), Event("historyFailed"))

\* --------------------------------------------- the TokenChecker panel's code
\* the texts typed into the contract field and the wallet field
ContractTexts == {"", "0xZZ", " 0x7798 "}
WalletTexts == {"", "0xZZ"}
\* what balanceOf() can answer
TokenRawBalances == {0, 5}
\* what a rejected contract call can throw
TokenErrors ==
  { [code |-> -1, message |-> "could not decode result data (code=BAD_DATA)"],
    [code |-> -1, message |-> "missing revert data (code=CALL_EXCEPTION)"],
    [code |-> -1, message |-> ""] }

\* text.trim(), for the texts above
trim(text) == IF text = " 0x7798 " THEN "0x7798" ELSE text


\* a checkBalance() without the check of the wallet address
checkBalance_noWalletCheck(t, addr) ==
  LET contractAddr == trim(t.contractAddress)
      checkAddr    == IF trim(t.walletAddress) # "" THEN trim(t.walletAddress)
                                                   ELSE addr
  IN  IF ~isAddress(contractAddr)
        THEN [t EXCEPT !.error = "Invalid token contract address."]
        ELSE [t EXCEPT !.loading = TRUE, !.error = null, !.result = NoResult,
                       !.calls = Put(@, [contract |-> contractAddr,
                                         checked |-> checkAddr])]

\* checkBalance() up to its await of the four contract calls, in a render
\* where the store's address is addr
checkBalance(t, addr) ==
  LET contractAddr == trim(t.contractAddress)
      checkAddr    == IF trim(t.walletAddress) # "" THEN trim(t.walletAddress)
                                                   ELSE addr
  IN  IF ~isAddress(contractAddr) THEN [t EXCEPT !.error = "Invalid token contract address."]
      ELSE IF ~isAddress(checkAddr) THEN [t EXCEPT !.error = "Invalid wallet address to check."]
      ELSE [t EXCEPT !.loading = TRUE, !.error = null, !.result = NoResult,
                     !.calls = Put(@, [contract |-> contractAddr,
                                       checked |-> checkAddr])]

\* checkBalance() resumed after the four calls resolved, and its finally block
checkBalance_resolved(t, c, rawBalance) ==
  [t EXCEPT !.result = [contractAddress |-> c.contract,
                        checkedAddress |-> c.checked,
                        rawBalance |-> rawBalance,
                        hasBalance |-> rawBalance > 0],
            !.loading = FALSE, !.calls = Take(@, c)]

\* the catch block of checkBalance(), and its finally block
checkBalance_catch(t, c, err) ==
  [t EXCEPT !.error =
              IF includes(err.message, "BAD_DATA")
                 \/ includes(err.message, "could not decode")
                THEN "This address is not a valid ERC20 token contract."
              ELSE IF includes(err.message, "CALL_EXCEPTION")
                THEN "Contract call failed. The address may not be an ERC20 token."
              ELSE "Could not fetch token data. Check the contract address.",
            !.loading = FALSE, !.calls = Take(@, c)]

selectPreset(t, token) ==
  [t EXCEPT !.contractAddress = token, !.result = NoResult, !.error = null]

useMyWallet(t, addr) ==
  [t EXCEPT !.walletAddress = IF addr # null THEN addr ELSE "", !.error = null]

\* the next state is the panel state t beside the unchanged store
ApplyTokens(t, l) ==
  /\ tokens' = t
  /\ last' = l
  /\ UNCHANGED <<ethereum, address, balance, network, chainId, status, error,
                 listeners, handlers, connecting, reading, hook, panel, send,
                 history, tracking>>

\* the preset buttons are enabled in every state
SelectPreset ==
  \E token \in PRESET_TOKENS :
    /\ panel = "TokenChecker"
    /\ ApplyTokens(selectPreset(tokens, token), Event("selectPreset"))

\* the Mine button: shown when connected, disabled={loading}
UseMyWallet ==
  /\ panel = "TokenChecker"
  /\ status = "connected"
  /\ ~tokens.loading
  /\ ApplyTokens(useMyWallet(tokens, address), Event("useMyWallet"))

EditContract ==
  \E text \in ContractTexts :
    /\ panel = "TokenChecker"
    /\ ~tokens.loading
    /\ ApplyTokens([tokens EXCEPT !.contractAddress = text,
                                  !.result = NoResult, !.error = null],
                   Event("tokenEdit"))

EditWallet ==
  \E text \in WalletTexts :
    /\ panel = "TokenChecker"
    /\ ~tokens.loading
    /\ ApplyTokens([tokens EXCEPT !.walletAddress = text, !.error = null],
                   Event("tokenEdit"))

\* the check button: disabled={loading || !contractAddress}
CheckBalanceClick ==
  /\ panel = "TokenChecker"
  /\ ~tokens.loading
  /\ tokens.contractAddress # ""
  /\ ApplyTokens(checkBalance(tokens, address), Event("checkBalance"))

\* the four calls go through window.ethereum
CheckBalanceReply ==
  \E c \in BagToSet(tokens.calls), rawBalance \in TokenRawBalances :
    /\ ethereum
    /\ ApplyTokens(checkBalance_resolved(tokens, c, rawBalance),
                   Event("tokenChecked"))

CheckBalanceThrow ==
  \E c \in BagToSet(tokens.calls), err \in TokenErrors :
    ApplyTokens(checkBalance_catch(tokens, c, err),
                [Event("tokenFailed") EXCEPT !.err = err])

\* ------------------------------------------- the three panels beside the store
\* a wallet that reports the same balance, 0.12345 ETH, for every account
OneBalanceReply ==
  /\ GetBalanceReply
  /\ \A c \in BagToSet(connecting') : c.pc = "getNetwork" => c.balance = 1235

OneBalanceRead ==
  /\ BalanceReply
  /\ balance' \in {nullNumber, 1235}

\* beside TxHistory, the wallet withdraws its accounts, and the page
\* disconnects
AccountsWithdrawn ==
  /\ panel = "TxHistory"
  /\ AccountsChanged
  /\ address' = null

DisconnectClick ==
  /\ panel = "TxHistory"
  /\ Disconnect

\* one of the three panels beside a store that is connected through its API
\* to that wallet, with one account on Sepolia; ETHERSCAN_KEY is set or not
InitPanels ==
  /\ InitStore
  /\ tracking = FALSE
  /\ panel \in {"SendEth", "TxHistory", "TokenChecker"}
  /\ \E key \in IF panel = "TxHistory" THEN BOOLEAN ELSE {TRUE} :
       InitHistory(key)

NextPanels ==
  \/ InjectProvider
  \/ ConnectOnce
  \/ RequestAccountsReply
  \/ OneAccountReply
  \/ GetAddressReply
  \/ OneBalanceReply
  \/ SepoliaReply
  \/ OneBalanceRead
  \/ AccountsWithdrawn
  \/ DisconnectClick
  \/ EditToAddress
  \/ EditAmount
  \/ SendEthClick
  \/ SendSignerReply
  \/ SendTransactionReply
  \/ SendWaitReply
  \/ SendThrow
  \/ SendReset
  \/ HistoryRefresh
  \/ HistoryFetchReply
  \/ HistoryJsonReply
  \/ HistoryThrow
  \/ SelectPreset
  \/ UseMyWallet
  \/ EditContract
  \/ EditWallet
  \/ CheckBalanceClick
  \/ CheckBalanceReply
  \/ CheckBalanceThrow

SpecPanels == InitPanels /\ [][NextPanels]_vars

\* TxHistory beside a store whose wallet also switches to the account 0xB2
AccountSwitched ==
  /\ AccountsChanged
  /\ address' \in {null, "0xB2"}

InitHistoryPanel ==
  /\ InitStore
  /\ tracking = FALSE
  /\ panel = "TxHistory"
  /\ \E key \in BOOLEAN : InitHistory(key)

NextHistory ==
  \/ InjectProvider
  \/ ConnectOnce
  \/ RequestAccountsReply
  \/ OneAccountReply
  \/ GetAddressReply
  \/ OneBalanceReply
  \/ SepoliaReply
  \/ OneBalanceRead
  \/ AccountSwitched
  \/ DisconnectClick
  \/ HistoryRefresh
  \/ HistoryFetchReply
  \/ HistoryJsonReply
  \/ HistoryThrow

SpecHistory == InitHistoryPanel /\ [][NextHistory]_vars

\* ---------------------------------------------------------------- claims
Subscribed == listeners # 0
Registered == handlers.accountsChanged # {} \/ handlers.chainChanged # {}

\* C1: in every reachable state of the store, address is present if and only
\* if status is connected.
C1_AddressIffConnected == (address # null) <=> (status = "connected")

\* C2: in every reachable state, the listener subscriptions (_listeners, and
\* the handlers registered on the provider) are present if and only if status
\* is connected.
C2_ListenersIffConnected ==
  /\ Subscribed <=> (status = "connected")
  /\ Registered <=> (status = "connected")

\* C3: a connect() called while a previous connect() is still in flight
\* (status connecting) issues no account-access request of its own: it
\* suspends no second call.
C3_NoSecondRequest ==
  [][(last'.op = "connect" /\ status = "connecting" /\ connecting # EmptyBag)
       => connecting' = connecting]_vars

\* C4: a connect() that a disconnect() overtook is discarded when it resolves,
\* with success or failure: the step that ends it leaves the session fields
\* and the listener registrations as they were.
C4_OvertakenConnectDiscarded ==
  [][(last'.op \in {"connected", "connectFailed"} /\ last'.stale)
       => UNCHANGED <<session, listeners, handlers>>]_vars

\* C5: a balance read that a disconnect() overtook is not written when it
\* resolves: the step that ends it leaves balance as it was.
C5_OvertakenReadDiscarded ==
  [][(last'.op = "balanceRead" /\ last'.stale) => balance' = balance]_vars

\* C6: notification handlers run one at a time to completion: when a handler
\* begins, the balance refresh of every earlier handler has resolved.
C6_HandlersRunToCompletion ==
  [][(last'.op \in {"accountsChanged", "chainChanged"})
       => reading = EmptyBag]_vars

\* C7 as stated: a connect() rejected with code 4001 returns the session to
\* idle with no error kept.
C7_RejectionReturnsToIdle ==
  (last.op = "connectFailed" /\ last.err.code = 4001)
    => (status = "idle" /\ error = null)

\* C7, amended: a connect() rejected with code 4001 ends in status error
\* with the fixed message "Connection rejected. Please try again.".
C7_RejectionSurfaced ==
  (last.op = "connectFailed" /\ last.err.code = 4001)
    => (status = "error" /\ error = ConnectionRejected)

C7_Rejected ==
  /\ last.op = "connectFailed"
  /\ last.err.code = 4001
  /\ status = "error"
  /\ error = ConnectionRejected

\* C8: connect() without a provider ends in status error with a non-empty
\* error and nothing requested from the provider; a later connect() that
\* succeeds ends connected with no error.
C8_AbsentProviderThenRecovery ==
  /\ last.op = "connectNoProvider"
       => /\ status = "error"
          /\ error \notin {null, ""}
          /\ connecting = EmptyBag
          /\ reading = EmptyBag
  /\ last.op = "connected" => (status = "connected" /\ error = null)

C8_Recovered ==
  /\ last.op = "connected"
  /\ status = "connected"
  /\ error = null
  /\ address # null

\* C9: whenever status is connected or idle, error is absent.
C9_NoErrorWhenConnectedOrIdle ==
  status \in {"connected", "idle"} => error = null

\* C10 as stated: a connect() that fails with a code other than 4001 ends in
\* status error with the failure's message as the error.
C10_MessagePassedThrough ==
  (last.op = "connectFailed" /\ last.err.code # 4001)
    => (status = "error" /\ error = last.err.message)

\* C10, amended: a connect() that fails with a code other than 4001 ends in
\* status error; the error is the failure's message when it has one, and
\* "Something went wrong." when it has none.
C10_MessageOrFallback ==
  (last.op = "connectFailed" /\ last.err.code # 4001)
    => /\ status = "error"
       /\ error = IF last.err.message # "" THEN last.err.message
                                           ELSE SomethingWentWrong

C10_PassedThrough ==
  /\ last.op = "connectFailed"
  /\ last.err.code # 4001
  /\ last.err.message # ""
  /\ status = "error"
  /\ error = last.err.message

\* the status changes the state machine lists, each with the step that makes it
ListedTransition ==
  \/ status = "idle" /\ status' = "connecting" /\ last'.op = "connect"
  \/ status = "error" /\ status' = "connecting" /\ last'.op = "connect"
  \/ status = "connecting" /\ status' = "connected" /\ last'.op = "connected"
  \/ status = "connecting" /\ status' = "error" /\ last'.op = "connectFailed"
  \/ /\ status = "connected" /\ status' = "idle"
     /\ \/ last'.op = "disconnect"
        \/ last'.op = "accountsChanged" /\ last'.accounts = <<>>

\* the changes the contracts of connect() and disconnect() add to that list:
\* to error when no provider is present, to idle from whatever status
ContractTransition ==
  \/ status' = "error" /\ last'.op = "connectNoProvider"
  \/ status' = "idle" /\ last'.op = "disconnect"

\* C11: every change of status is one of the listed transitions (idle to
\* connecting and error to connecting by connect(), connecting to connected on
\* success, connecting to error on failure, connected to idle by disconnect()
\* or an empty accountsChanged); no other change occurs.  The formula also
\* admits the two changes the operations' own contracts add, so a step that
\* violates it is outside the list on every reading.
C11_OnlyListedTransitions ==
  [][status' # status => (ListedTransition \/ ContractTransition)]_vars

C13_DisconnectIdempotent ==
  LET once  == disconnect(Store)
      twice == disconnect(once)
  IN  twice = once

\* a state in which a first disconnect() has work to do on the listeners, with
\* another pair registered besides the recorded one
C13_TwoPairsRegistered ==
  /\ status = "connected"
  /\ listeners # 0
  /\ Cardinality(handlers.accountsChanged) = 2
  /\ disconnect(Store) # Store

\* C14: an accountsChanged notification with an empty list, received while
\* connected, leaves the store in exactly the state disconnect() produces from
\* the same state.
C14_EmptyListIsDisconnect ==
  [][(last'.op = "accountsChanged" /\ last'.accounts = <<>> /\ status = "connected")
       => Store' = disconnect(Store)]_vars

C14_EmptyListReceived ==
  /\ last.op = "accountsChanged"
  /\ last.accounts = <<>>
  /\ status = "idle"
  /\ address = null
  /\ listeners = 0

\* C15: an accountsChanged notification with a non-empty list sets address to
\* the first account of the list, leaves status, chainId and network as they
\* were, and starts a balance read for that address.
C15_FirstAccountAdopted ==
  [][(last'.op = "accountsChanged" /\ last'.accounts # <<>>)
       => LET r == [address |-> last'.accounts[1], stale |-> FALSE]
          IN  /\ address' = last'.accounts[1]
              /\ UNCHANGED <<status, chainId, network>>
              /\ CopiesIn(r, reading') > CopiesIn(r, reading)]_vars

C15_AccountSwitched ==
  /\ last.op = "accountsChanged"
  /\ last.accounts = <<"0xB2", "0xA1">>
  /\ address = "0xB2"
  /\ BagIn([address |-> "0xB2", stale |-> FALSE], reading)

\* the numeric value of each notification argument, written out
HexChainIdValue(hexChainId) ==
  CASE hexChainId = <<"0", "x", "1">> -> 1
    [] hexChainId = <<"0", "x", "a", "a", "3", "6", "a", "7">> -> 11155111
    [] hexChainId = <<"0", "x", "8", "9">> -> 137
    [] hexChainId = <<"0", "x", "1", "3", "8", "8", "1">> -> 80001
    [] hexChainId = <<"0", "x", "5">> -> 5

\* the label the fixed table gives an id, and "Chain ID: {id}" outside it
TableLabel(id) ==
  CASE id = 1        -> "Ethereum Mainnet"
    [] id = 11155111 -> "Sepolia Testnet"
    [] id = 137      -> "Polygon"
    [] id = 80001    -> "Mumbai Testnet"
    [] OTHER         -> "Chain ID: " \o ToString(id)

\* C16: a chainChanged notification sets chainId to the numeric value of its
\* hexadecimal argument and network to the table label of that id ("0xaa36a7"
\* gives 11155111 and "Sepolia Testnet"), leaves address and status as they
\* were, and calls refreshBalance(): a balance read for the current address
\* is started.
C16_ChainAdopted ==
  [][last'.op = "chainChanged"
       => LET r == [address |-> address, stale |-> FALSE]
          IN  /\ chainId' = HexChainIdValue(last'.hex)
              /\ network' = TableLabel(HexChainIdValue(last'.hex))
              /\ UNCHANGED <<address, status>>
              /\ address # null => CopiesIn(r, reading') > CopiesIn(r, reading)]_vars

C16_SwitchedToSepolia ==
  /\ last.op = "chainChanged"
  /\ last.hex = <<"0", "x", "a", "a", "3", "6", "a", "7">>
  /\ chainId = 11155111
  /\ network = "Sepolia Testnet"
  /\ address # null
  /\ BagIn([address |-> address, stale |-> FALSE], reading)

\* C17: in every reachable state network is a function of chainId: both are
\* null together, and a chainId that is present has the label of the fixed
\* table when it is 1, 11155111, 137 or 80001, and "Chain ID: {id}" otherwise.
C17_LabelFollowsChainId ==
  /\ (chainId = nullNumber) <=> (network = null)
  /\ chainId # nullNumber => network = TableLabel(chainId)

C17_UnknownChain ==
  /\ chainId = 5
  /\ network = "Chain ID: 5"
  /\ status = "connected"

\* C18: refreshBalance() called while address is null changes no field of the
\* store and asks the provider nothing.
C18_NoAddressNoRefresh ==
  [][(last'.op = "refreshBalance" /\ address = null)
       => UNCHANGED <<session, listeners, handlers, connecting, reading>>]_vars

C18_RefreshedWithoutAddress ==
  /\ last.op = "refreshBalance"
  /\ address = null
  /\ ethereum
  /\ reading = EmptyBag

\* C19: when the balance read of refreshBalance() fails, balance keeps its
\* value and status and error are unchanged.
C19_FailedReadIsSilent ==
  [][last'.op = "balanceFailed" => UNCHANGED <<balance, status, error>>]_vars

C19_ReadFailed ==
  /\ last.op = "balanceFailed"
  /\ status = "connected"
  /\ balance # nullNumber
  /\ error = null

\* C20: the session WalletCard drives is the store the other components read:
\* when WalletCard shows a connection, the store has status connected and the
\* same address, and when WalletCard shows none after its disconnect, the
\* store is idle.
C20_WalletCardDrivesStore ==
  /\ hook.status = "connected"
       => (status = "connected" /\ address = hook.address)
  /\ last.op = "hookDisconnect" => status = "idle"

\* every call suspended after the step was suspended before it
NoNewRequest ==
  /\ \A c \in BagToSet(connecting') : CopiesIn(c, connecting') <= CopiesIn(c, connecting)
  /\ \A r \in BagToSet(reading') : CopiesIn(r, reading') <= CopiesIn(r, reading)

\* C22: nothing is retried automatically: the step in which a connect() or a
\* refreshBalance() fails asks the provider nothing more, and status error
\* persists until the next connect() or disconnect() call.
C22_NoAutomaticRetry ==
  [][/\ last'.op \in {"connectFailed", "balanceFailed"} => NoNewRequest
     /\ (status = "error" /\ status' # "error")
          => last'.op \in {"connect", "disconnect"}]_vars

\* C24: disconnect() is a local reset: the step suspends no call on the
\* provider and resolves none, and the only thing it does to the provider is
\* to remove handlers, none but the pair recorded in _listeners.
C24_DisconnectIsLocal ==
  [][last'.op = "disconnect"
       => /\ connecting' = connecting
          /\ reading' = reading
          /\ ethereum' = ethereum
          /\ handlers.accountsChanged \ handlers'.accountsChanged \subseteq {listeners}
          /\ handlers.chainChanged \ handlers'.chainChanged \subseteq {listeners}
          /\ handlers'.accountsChanged \subseteq handlers.accountsChanged
          /\ handlers'.chainChanged \subseteq handlers.chainChanged]_vars

\* disconnect() has run while calls on the provider were suspended
C24_DisconnectedMidCall ==
  /\ last.op = "disconnect"
  /\ connecting # EmptyBag
  /\ reading # EmptyBag
  /\ handlers.accountsChanged = {}

\* C25: at no time is more than one accountsChanged handler or more than one
\* chainChanged handler of the session registered, and after disconnect() none
\* is registered.
C25_NoHandlerLeak ==
  /\ Cardinality(handlers.accountsChanged) <= 1
  /\ Cardinality(handlers.chainChanged) <= 1
  /\ last.op = "disconnect" => ~Registered

\* C26: a balance read is applied only to the address it was read for: the
\* read that resolves last, with the session connected, was made for the
\* current address.
C26_ReadAppliedToItsAddress ==
  [][(last'.op = "balanceRead" /\ reading' = EmptyBag /\ status' = "connected")
       => \A r \in BagToSet(reading) : r.address = address']_vars

\* C27: with a provider that eventually answers every request, a session in
\* status connecting does not stay there: it comes to connected or to error.
C27_ConnectingEnds ==
  (status = "connecting") ~> (status \in {"connected", "error"})

\* a connect() call has ended and none is left suspended
C27_CallEnded ==
  /\ last.op \in {"connected", "connectFailed"}
  /\ status \in {"connected", "error"}
  /\ connecting = EmptyBag

\* C23: the session has no terminal state: whatever state it is in, connected
\* can be reached again and idle can be reached again.
C23_NoTerminalState ==
  /\ []<>(status = "connected")
  /\ []<>(status = "idle")

\* connected for the second time in a behaviour
C23_ConnectedAgain ==
  /\ last.op = "connected"
  /\ status = "connected"
  /\ listeners = 2

\* C28: at most one sendEth() is in flight at a time: once one has been
\* started, no second one starts before the first has ended.
C28_OneSendInFlight == BagCardinality(send.calls) <= 1

\* C29: when an await of sendEth() is rejected with code 4001, the step sets
\* the stage back to idle and sets no error message.
C29_RejectionIsNoError ==
  [][(last'.op = "sendFailed" /\ last'.err.code = 4001)
       => /\ send'.stage = "idle"
          /\ send'.errorMsg = send.errorMsg]_vars

C29_SendRejected ==
  /\ last.op = "sendFailed"
  /\ last.err.code = 4001
  /\ send.stage = "idle"
  /\ send.errorMsg = null

\* C30: a click on send with an invalid recipient, an amount not above 0, or
\* an amount above the balance less the 0.001 ETH reserve sets an error
\* message, starts no call (no signer requested, no transaction submitted)
\* and leaves the stage, and the store, as they were.
C30_InvalidInputStopsSend ==
  [][(/\ last'.op \in {"sendEth", "sendInvalid"}
      /\ \/ send.toAddress \notin ValidAddresses
         \/ send.amount <= 0
         \/ send.amount > balance - GasReserve)
       => /\ send'.errorMsg \notin {null, ""}
          /\ send'.calls = send.calls
          /\ send'.stage = send.stage
          /\ send'.txHash = send.txHash
          /\ UNCHANGED <<session, connecting, reading>>]_vars

\* a click refused for the reserve alone
C30_AboveReserveRefused ==
  /\ last.op = "sendInvalid"
  /\ send.toAddress \in ValidAddresses
  /\ send.amount > balance - GasReserve
  /\ send.errorMsg = MaxSendableMsg(balance)
  /\ send.calls = EmptyBag

\* the slices of the store's five operations: connect(), disconnect(),
\* refreshBalance() and the two notification handlers
StoreSlices ==
  {"connect", "connectNoProvider", "requestAccountsReply", "getSignerReply",
   "getAddressReply", "getBalanceReply", "connected", "connectFailed",
   "disconnect", "refreshBalance", "balanceRead", "balanceFailed",
   "accountsChanged", "chainChanged"}

\* the slices of SendEth, TxHistory and TokenChecker
PanelSlices ==
  {"sendEdit", "sendInvalid", "sendEth", "sendSigned", "sendBroadcast",
   "sendMined", "sendFailed", "sendReset",
   "historyRefresh", "historyFetched", "historyParsed", "historyFailed",
   "selectPreset", "useMyWallet", "tokenEdit", "checkBalance", "tokenChecked",
   "tokenFailed"}

\* C21: a step that changes address, balance, chainId, network, status or
\* error is a slice of one of the store's five operations; a slice of SendEth,
\* TxHistory or TokenChecker leaves the six fields, the listeners and the
\* suspended connect() calls as they were, and starts no balance read, but
\* for the success path of sendEth(), which starts what refreshBalance() starts.
C21_SessionOwnedByStore ==
  [][/\ session' # session => last'.op \in StoreSlices
     /\ last'.op \in PanelSlices
          => /\ UNCHANGED <<session, listeners, handlers, connecting>>
             /\ reading' = IF last'.op = "sendMined"
                             THEN refreshBalance(Store).reading
                             ELSE reading]_vars

\* sendEth() has succeeded and has called refreshBalance()
C21_PanelCalledRefresh ==
  /\ panel = "SendEth"
  /\ last.op = "sendMined"
  /\ send.stage = "success"
  /\ reading # EmptyBag

\* C31: the stage becomes success only from mining, and mining only from
\* confirming; whenever the stage is success, txHash is the hash of a
\* receipt; and a step that handles a failure leaves the stage at error or idle.
C31_SuccessThroughMining ==
  [][/\ (send'.stage = "success" /\ send.stage # "success")
          => send.stage = "mining"
     /\ (send'.stage = "mining" /\ send.stage # "mining")
          => send.stage = "confirming"
     /\ send'.stage = "success" => send'.txHash \in TxHashes
     /\ last'.op = "sendFailed" => send'.stage \in {"error", "idle"}]_vars

\* C32: a step of fetchHistory() that stores a list stores the list of the
\* store's current address, and stores none when the address is absent: a
\* response for an earlier address is not stored.
C32_StoredListIsCurrent ==
  [][(last'.op = "historyParsed" /\ history'.txs # history.txs
      /\ history'.txs # <<>>)
       => /\ address # null
          /\ history'.txs = TxsOf(address)]_vars

\* C33: loading is true exactly while a fetchHistory() call is suspended.
C33_LoadingIffFetching ==
  history.loading <=> history.calls # EmptyBag

\* C34: a click on check with a contract address, or a wallet address, that
\* is not an address sets an error, starts no call and leaves loading false;
\* and the step that ends a checkBalance() call, resolved or rejected, leaves
\* loading false.
C34_InvalidCheckStopsEarly ==
  [][/\ (/\ last'.op = "checkBalance"
         /\ \/ trim(tokens.contractAddress) \notin ValidAddresses
            \/ (IF trim(tokens.walletAddress) # ""
                  THEN trim(tokens.walletAddress) ELSE address)
                 \notin ValidAddresses)
          => /\ tokens'.error \notin {null, ""}
             /\ tokens'.calls = tokens.calls
             /\ ~tokens'.loading
     /\ last'.op \in {"tokenChecked", "tokenFailed"}
          => /\ ~tokens'.loading
             /\ tokens'.calls = EmptyBag]_vars

\* a check refused for the wallet address alone
C34_InvalidWalletRefused ==
  /\ last.op = "checkBalance"
  /\ trim(tokens.contractAddress) \in ValidAddresses
  /\ tokens.walletAddress = "0xZZ"
  /\ tokens.error = "Invalid wallet address to check."
  /\ tokens.calls = EmptyBag
  /\ ~tokens.loading

\* C35: TokenChecker never holds a result and an error together: a result
\* that is not null implies an error that is null.
C35_ResultExcludesError ==
  tokens.result # NoResult => tokens.error = null

\* C36: in the useWallet() hook behind WalletCard's buttons, address is not
\* null exactly when status is connected, and after disconnect address,
\* balance, network and error are null and status is idle.
C36_HookAddressIffConnected ==
  /\ (hook.address # null) <=> (hook.status = "connected")
  /\ last.op = "hookDisconnect"
       => /\ hook.address = null
          /\ hook.balance = nullNumber
          /\ hook.network = null
          /\ hook.error = null
          /\ hook.status = "idle"

\* the card was connected and has been disconnected
C36_HookDisconnected ==
  /\ last.op = "hookDisconnect"
  /\ hook.status = "idle"
  /\ hook.address = null
  /\ hook.calls = EmptyBag

====
